---- MODULE Spec2Model ----
(***************************************************************************)
(* One invocation of the commit command: command validation, createCommit  *)
(* (context setup, file selection, branch resolution, blob/tree/commit     *)
(* creation, ref update) against a remote object store and a local working *)
(* tree.  Every remote call and every git command is one step; the calls   *)
(* issued so far are kept in apiCalls and gitCalls.                        *)
(***************************************************************************)
EXTENDS Integers, Sequences, FiniteSets, TLC

\* ------------------------------------------------------------------ bounds

\* Number of paths of the working tree that take part in a run.
NumPaths == 2

AllPaths == <<"a.txt", "b.txt", "c.txt", "d.txt">>

PathSeq == SubSeq(AllPaths, 1, NumPaths)

Paths == {PathSeq[i] : i \in 1..Len(PathSeq)}

\* The bytes of each file of the working tree (lengths 5, 2, 3, 1: every
\* base64 padding case).
FileBytes(p) ==
    CASE p = "a.txt" -> <<104, 101, 108, 108, 111>>
      [] p = "b.txt" -> <<255, 0>>
      [] p = "c.txt" -> <<1, 2, 3>>
      [] OTHER -> <<7>>

\* ------------------------------------------------------- program constants

StatusNotFound == 404

BranchNotFoundMessage == "Branch not found"

BlobMode == "100644"

BlobType == "blob"

\* The JSON null of a deletion entry ("sha": nil).
Null == "<nil>"

\* base64.StdEncoding: sextets 0..63, and the padding character.
PadChar == 64

\* ------------------------------------------------------------- environment

Branches == {"main", "feature"}

RemoteDefaultBranch == "main"

NoRef == "<no ref>"

\* The tree of a commit of the remote.
TreeOf(c) ==
    CASE c = "c0" -> "t0"
      [] c = "c1" -> "t1"
      [] OTHER -> "t2"

\* The sha the remote gives a blob with these bytes.
BlobSha(bytes) ==
    CASE bytes = <<>> -> "b-empty"
      [] bytes = FileBytes("a.txt") -> "b-a"
      [] bytes = FileBytes("b.txt") -> "b-b"
      [] bytes = FileBytes("c.txt") -> "b-c"
      [] OTHER -> "b-d"

NewTreeSha == "t-new"

NewCommitSha == "c-new"

\* The errors a remote call can end with: api.HTTPError values and errors
\* that are no HTTP error (transport).
ErrBranchNotFound == [http |-> TRUE, status |-> StatusNotFound, msg |-> BranchNotFoundMessage]

ErrNotFound == [http |-> TRUE, status |-> StatusNotFound, msg |-> "Not Found"]

ErrServer == [http |-> TRUE, status |-> 500, msg |-> "Server Error"]

ErrUnprocessable == [http |-> TRUE, status |-> 422, msg |-> "Validation Failed"]

ErrTransport == [http |-> FALSE, status |-> 0, msg |-> "connection reset"]

NoErr == [http |-> FALSE, status |-> 0, msg |-> ""]

\* Failures any call can meet whatever the remote's state.
AnyTimeErrors == {ErrNotFound, ErrServer, ErrTransport}

\* The states of one path of the working tree.
Statuses ==
    {"clean", "modified", "untracked", "deleted",
     "staged", "stagedModified", "stagedDeleted", "stagedUnreadable"}

StagedStatuses == {"staged", "stagedModified", "stagedDeleted", "stagedUnreadable"}

\* The working trees a run starts from: the first path in any status, the
\* others in one of four.
OtherStatuses == {"clean", "modified", "staged", "stagedDeleted"}

WorkingTrees ==
    {w \in [Paths -> Statuses] : \A i \in 2..Len(PathSeq) : w[PathSeq[i]] \in OtherStatuses}

\* No file at a path.
NoFile == <<-1>>

\* The bytes a tracked file has in the checked-out commit.
HeadBytes(p) == <<111, 108, 100>>

\* The working-tree file and the committed file of a path in a status.
InitialFile(st, p) ==
    IF st \in {"deleted", "stagedDeleted"} THEN NoFile
    ELSE IF st = "clean" THEN HeadBytes(p)
    ELSE FileBytes(p)

InitialHeadFile(st, p) == IF st = "untracked" THEN NoFile ELSE HeadBytes(p)

NoSnapshot == [made |-> FALSE, files |-> <<>>]

\* os.Stat: the path is there.
ExistsLocally(f, name) == name \in DOMAIN f /\ f[name] # NoFile

\* The file can be opened for reading.
Readable(w, f, name) == ExistsLocally(f, name) /\ w[name] # "stagedUnreadable"

\* os.ReadFile with its error dropped: the bytes read, nothing when the
\* read fails.
ReadFile(w, f, name) == IF Readable(w, f, name) THEN f[name] ELSE <<>>

\* git diff --name-only --cached: the staged paths, in path order.
GitDiffCached(w) == SelectSeq(PathSeq, LAMBDA p : w[p] \in StagedStatuses)

MatchesPattern(p, patterns) ==
    \E i \in 1..Len(patterns) : patterns[i] = "." \/ patterns[i] = p

\* git add --dry-run: what the command would add, in path order.
WouldAdd(w, p, command) ==
    \/ w[p] \in {"modified", "stagedModified", "deleted"}
    \/ w[p] = "untracked" /\ \A i \in 1..Len(command) : command[i] # "-u"

AddLine(w, p) == [verb |-> IF w[p] = "deleted" THEN "remove" ELSE "add", path |-> p]

GitAddDryRun(w, command, patterns) ==
    LET hit == SelectSeq(PathSeq, LAMBDA p : MatchesPattern(p, patterns) /\ WouldAdd(w, p, command))
    IN [i \in 1..Len(hit) |-> AddLine(w, hit[i])]

\* ------------------------------------------------------------------- base64

RECURSIVE Base64Encode(_)
Base64Encode(bytes) ==
    IF Len(bytes) = 0 THEN <<>>
    ELSE IF Len(bytes) = 1 THEN
        <<bytes[1] \div 4, (bytes[1] % 4) * 16, PadChar, PadChar>>
    ELSE IF Len(bytes) = 2 THEN
        <<bytes[1] \div 4, (bytes[1] % 4) * 16 + bytes[2] \div 16,
          (bytes[2] % 16) * 4, PadChar>>
    ELSE
        <<bytes[1] \div 4, (bytes[1] % 4) * 16 + bytes[2] \div 16,
          (bytes[2] % 16) * 4 + bytes[3] \div 64, bytes[3] % 64>>
        \o Base64Encode(SubSeq(bytes, 4, Len(bytes)))

RECURSIVE Base64Decode(_)
Base64Decode(chars) ==
    IF Len(chars) < 4 THEN <<>>
    ELSE
        LET b1 == chars[1] * 4 + chars[2] \div 16
            b2 == (chars[2] % 16) * 16 + chars[3] \div 4
            b3 == (chars[3] % 4) * 64 + chars[4]
        IN IF chars[3] = PadChar THEN <<b1>>
           ELSE IF chars[4] = PadChar THEN <<b1, b2>>
           ELSE <<b1, b2, b3>> \o Base64Decode(SubSeq(chars, 5, Len(chars)))

\* -------------------------------------------------------------------- state

VARIABLES
    pc,                  \* the step createCommit is at
    ret,                 \* what the command returned: "none", "nil", "err", "panic"
    errMsg,              \* the error returned
    opts,                \* commitOptions
    wt,                  \* git's view of the working tree: path -> status
    fs,                  \* the files of the working tree: path -> bytes or NoFile
    headTree,            \* the files of the checked-out commit
    stash,               \* the stash entries, newest first
    snapshot,            \* the temporary directory of the sync: made, files
    backupFiles,         \* syncWithRemote's list of files to back up
    localHash,           \* syncWithRemote: output of rev-parse HEAD
    heads,               \* after the pull: local HEAD and remote-tracking tip
    remote,              \* the remote: refs and the commits it holds
    defaultBranch,       \* the global set by setupContext
    alreadyStagedFiles,
    filesToCommit,
    branchExists,
    latestCommit,
    treeTip,
    blobs,
    newTreeSha,
    newCommitSha,
    apiCalls,            \* the remote calls issued, in order, with their answers
    gitCalls,            \* the git commands run, in order
    saved                \* the comparison of two runs: phase, state

\* The state of the program.
progVars ==
    <<pc, ret, errMsg, opts, wt, fs, headTree, stash, snapshot, backupFiles,
      localHash, heads, remote, defaultBranch, alreadyStagedFiles,
      filesToCommit, branchExists, latestCommit, treeTip, blobs, newTreeSha,
      newCommitSha, apiCalls, gitCalls>>

vars == <<progVars, saved>>

\* The local repository and syncWithRemote's variables.
localState == <<wt, fs, headTree, stash, snapshot, backupFiles, localHash, heads>>

locals ==
    <<alreadyStagedFiles, filesToCommit, branchExists, latestCommit, treeTip,
      blobs, newTreeSha, newCommitSha>>

\* --------------------------------------------------------------------- Init

\* No run is being compared.
NoSaved == [phase |-> "run", state |-> <<>>]

NoPatterns == [isNil |-> FALSE, items |-> <<>>]

\* The positional arguments: none (nil or empty) or some paths.
PatternChoices ==
    {[isNil |-> TRUE, items |-> <<>>], NoPatterns,
     [isNil |-> FALSE, items |-> <<PathSeq[1]>>]}

OptionChoices ==
    [CommitAll : BOOLEAN, Force : BOOLEAN, IncludeUntracked : BOOLEAN,
     IncludeStagedFiles : BOOLEAN, SyncWithRemote : BOOLEAN, DryRun : BOOLEAN,
     Branch : Branches, CommitMessage : {"message"},
     PatternMatches : PatternChoices]

\* The remote before the run: the default branch at c0, the other branch
\* missing or at c1.
RemoteChoices(branch) ==
    {[refs |-> [b \in Branches |-> IF b = RemoteDefaultBranch THEN "c0" ELSE tip],
      commits |-> {"c0", "c1"}, trees |-> {"t0", "t1"}, blobs |-> {}] :
        tip \in IF branch = RemoteDefaultBranch THEN {NoRef} ELSE {NoRef, "c1"}}

Init ==
    /\ pc = "cli"
    /\ ret = "none"
    /\ errMsg = ""
    /\ saved = NoSaved
    /\ opts \in {o \in OptionChoices : o.CommitAll => o.PatternMatches = NoPatterns}
    /\ wt \in WorkingTrees
    /\ fs = [p \in Paths |-> InitialFile(wt[p], p)]
    /\ headTree = [p \in Paths |-> InitialHeadFile(wt[p], p)]
    /\ stash \in IF opts.SyncWithRemote
                 THEN {<<>>, <<[by |-> "earlier", files |-> [p \in Paths |-> NoFile]]>>}
                 ELSE {<<>>}
    /\ snapshot = NoSnapshot
    /\ backupFiles = <<>>
    /\ localHash = <<>>
    /\ heads = [local |-> "", tracking |-> ""]
    /\ remote \in RemoteChoices(opts.Branch)
    /\ defaultBranch = ""
    /\ alreadyStagedFiles = <<>>
    /\ filesToCommit = <<>>
    /\ branchExists = FALSE
    /\ latestCommit = ""
    /\ treeTip = ""
    /\ blobs = <<>>
    /\ newTreeSha = ""
    /\ newCommitSha = ""
    /\ apiCalls = <<>>
    /\ gitCalls = <<>>

\* ------------------------------------------------------------------ helpers

\* The command returns: r is "nil", "err" or "panic".
Return(r, msg) ==
    /\ pc' = "done"
    /\ ret' = r
    /\ errMsg' = msg

Goto(label) ==
    /\ pc' = label
    /\ UNCHANGED <<ret, errMsg>>

\* One remote call and its answer, as apiClient.REST sees it.  file is the
\* local path an upload is made for, "" otherwise.
Call(op, target, body, ok, sha, err, file) ==
    [op |-> op, target |-> target, body |-> body, ok |-> ok, sha |-> sha,
     err |-> err, file |-> file]

NoBody == [none |-> TRUE]

Issue(call) == apiCalls' = Append(apiCalls, call)

RunGit(command) == gitCalls' = Append(gitCalls, command)

\* ------------------------------------------------------------- NewCmdCommit

MutuallyExclusiveNever(o) == FALSE

\* The message of the validation error (without its backquotes).
MutuallyExclusiveMessage == "specify only one of --all, --force"

\* cmdutil.MutuallyExclusive over --all and --force.
MutuallyExclusiveFails(o) == o.CommitAll /\ o.Force

\* RunE: validate the flags, then run createCommit.
RunE ==
    /\ pc = "cli"
    /\ IF MutuallyExclusiveFails(opts)
       THEN Return("err", MutuallyExclusiveMessage)
       ELSE Goto("setup")
    /\ UNCHANGED <<saved, opts, localState, remote, defaultBranch, locals, apiCalls, gitCalls>>

\* ------------------------------------------------------------- setupContext

SetupOutcomes == {"ok", "httpClient", "baseRepo", "config", "defaultBranch"}

\* What createCommit returns when setupContext failed.
SetupFailureReturn == "nil"

\* setupContext and createCommit's handling of its error.  The lookup of
\* the default branch is a remote call of its own.
SetupContext ==
    /\ pc = "setup"
    /\ \E outcome \in SetupOutcomes :
        /\ IF outcome \in {"ok", "defaultBranch"}
           THEN Issue(Call("repoDefaultBranch", "", NoBody, outcome = "ok",
                           "", IF outcome = "ok" THEN NoErr ELSE ErrServer, ""))
           ELSE UNCHANGED apiCalls
        /\ IF outcome = "ok"
           THEN /\ defaultBranch' = RemoteDefaultBranch
                /\ Goto("staged")
           ELSE /\ UNCHANGED defaultBranch
                /\ Return(SetupFailureReturn, "")
    /\ UNCHANGED <<saved, opts, localState, remote, locals, gitCalls>>

\* ----------------------------------------------------------- file selection

StagedFilesMessage == "staged files found, use --include-staged to include them in the commit"

NoFilesMessage == "no files to commit"

\* createCommit's check of the staged files against --include-staged.
StagedCheckFails(staged, o) == Len(staged) > 0 /\ ~o.IncludeStagedFiles

\* listStagedFiles and the staged-file check.  The error of the listing is
\* overwritten by the next assignment to err and never looked at.
ListStagedFiles ==
    /\ pc = "staged"
    /\ RunGit(<<"diff", "--name-only", "--cached">>)
    /\ \E ok \in BOOLEAN :
        LET staged == IF ok THEN GitDiffCached(wt) ELSE <<>>
        IN /\ alreadyStagedFiles' = staged
           /\ IF StagedCheckFails(staged, opts)
              THEN Return("err", StagedFilesMessage)
              ELSE Goto("select")
    /\ UNCHANGED <<saved, opts, localState, remote, defaultBranch, filesToCommit, branchExists,
                   latestCommit, treeTip, blobs, newTreeSha, newCommitSha, apiCalls>>

NoFilesToCommitOrDryRun(o) ==
    o.DryRun \/ (~o.CommitAll /\ (~o.PatternMatches.isNil \/ Len(o.PatternMatches.items) = 0))

\* The guard of listFilesForCommit.
NoFilesToCommit(o) ==
    ~o.CommitAll /\ (~o.PatternMatches.isNil \/ Len(o.PatternMatches.items) = 0)

\* The patterns listFilesForCommit resolves the file set against.
SelectionPatterns(o) == IF o.CommitAll THEN <<".">> ELSE o.PatternMatches.items

AddCommandNoDryRun(patterns, force, excludeUntracked) ==
    <<"add">>
    \o (IF excludeUntracked THEN <<"-u">> ELSE IF force THEN <<"-f">> ELSE <<>>)
    \o patterns

AddCommandBothFlags(patterns, force, excludeUntracked) ==
    <<"add", "--dry-run">>
    \o (IF excludeUntracked THEN <<"-u">> ELSE <<>>)
    \o (IF force THEN <<"-f">> ELSE <<>>)
    \o patterns

\* The command listFilesUsingPatterns builds (after "git").
AddCommand(patterns, force, excludeUntracked) ==
    <<"add", "--dry-run">>
    \o (IF excludeUntracked THEN <<"-u">> ELSE IF force THEN <<"-f">> ELSE <<>>)
    \o patterns

\* The file name taken from one output line: "add " removed once, then the
\* single quotes trimmed from both ends.
ParseAddLine(l) == IF l.verb = "add" THEN l.path ELSE l.verb \o " '" \o l.path

ParseAddOutput(lines) == [i \in 1..Len(lines) |-> ParseAddLine(lines[i])]

\* listFilesForCommit, the append of the staged files and the error check.
ListFilesForCommit ==
    /\ pc = "select"
    /\ IF NoFilesToCommit(opts)
       THEN /\ filesToCommit' = alreadyStagedFiles
            /\ UNCHANGED gitCalls
            /\ Return("err", NoFilesMessage)
       ELSE LET patterns == SelectionPatterns(opts)
                command == AddCommand(patterns, opts.Force, ~opts.IncludeUntracked)
            IN /\ RunGit(command)
               /\ \E ok \in BOOLEAN :
                    IF ok
                    THEN /\ filesToCommit' =
                              ParseAddOutput(GitAddDryRun(wt, command, patterns))
                              \o alreadyStagedFiles
                         /\ Goto("resolve")
                    ELSE /\ filesToCommit' = alreadyStagedFiles
                         /\ Return("err", "git add failed")
    /\ UNCHANGED <<saved, opts, localState, remote, defaultBranch, alreadyStagedFiles, branchExists,
                   latestCommit, treeTip, blobs, newTreeSha, newCommitSha, apiCalls>>

\* ---------------------------------------------------------- getLatestCommit

Ok(sha) == [ok |-> TRUE, sha |-> sha, err |-> NoErr]

Fail(e) == [ok |-> FALSE, sha |-> "", err |-> e]

\* What GET /branches/{branch} can answer.
BranchAnswers(r, branch) ==
    (IF r.refs[branch] # NoRef THEN {Ok(r.refs[branch])} ELSE {Fail(ErrBranchNotFound)})
    \cup {Fail(e) : e \in AnyTimeErrors}

\* What a call other than the branch query can answer: the result or a
\* failure when the remote accepts the request, a rejection otherwise.
Answers(valid, sha) == IF valid THEN {Ok(sha), Fail(ErrServer)} ELSE {Fail(ErrUnprocessable)}

AfterResolveNeverCreate(exists) == "treeTip"

\* createCommit after getLatestCommit returned without error: the branch is
\* created first when it was not found.
AfterResolve(exists) == IF exists THEN "treeTip" ELSE "createBranch"

\* The error of the target query that getLatestCommit returns to its caller.
IsFatalBranchError(err) ==
    err.http /\ (err.status # StatusNotFound \/ err.msg # BranchNotFoundMessage)

\* getLatestCommit, the query of the target branch.
GetLatestCommitTarget ==
    /\ pc = "resolve"
    /\ \E a \in BranchAnswers(remote, opts.Branch) :
        /\ Issue(Call("getBranch", opts.Branch, NoBody, a.ok, a.sha, a.err, ""))
        /\ IF a.ok
           THEN /\ branchExists' = TRUE
                /\ latestCommit' = a.sha
                /\ Goto(AfterResolve(TRUE))
           ELSE IF IsFatalBranchError(a.err)
           THEN /\ branchExists' = FALSE
                /\ latestCommit' = ""
                /\ Return("err", a.err.msg)
           ELSE /\ UNCHANGED <<branchExists, latestCommit>>
                /\ Goto("resolveDefault")
    /\ UNCHANGED <<saved, opts, localState, remote, defaultBranch, alreadyStagedFiles, filesToCommit,
                   treeTip, blobs, newTreeSha, newCommitSha, gitCalls>>

\* The sha getLatestCommit returns after the default-branch query: the field
\* of the response struct, filled or not; the query's error is dropped.
DefaultBranchSha(a) == a.sha

\* getLatestCommit, the query of the default branch, and its return
\* (false, sha, nil); createCommit then creates the branch.
GetLatestCommitDefault ==
    /\ pc = "resolveDefault"
    /\ \E a \in BranchAnswers(remote, defaultBranch) :
        /\ Issue(Call("getBranch", defaultBranch, NoBody, a.ok, a.sha, a.err, ""))
        /\ branchExists' = FALSE
        /\ latestCommit' = DefaultBranchSha(a)
        /\ Goto(AfterResolve(FALSE))
    /\ UNCHANGED <<saved, opts, localState, remote, defaultBranch, alreadyStagedFiles, filesToCommit,
                   treeTip, blobs, newTreeSha, newCommitSha, gitCalls>>

\* ------------------------------------------------------------ createCommit

RefBodyOtherCommit(commitSha, branchName) ==
    [ref |-> "refs/heads/" \o branchName, sha |-> "c1"]

\* createCommit creates the target branch when it was not found.
RefBody(commitSha, branchName) == [ref |-> "refs/heads/" \o branchName, sha |-> commitSha]

\* createNewBranch and createCommit's check of its error.
CreateNewBranch ==
    /\ pc = "createBranch"
    /\ LET body == RefBody(latestCommit, opts.Branch)
           valid == remote.refs[opts.Branch] = NoRef /\ body.sha \in remote.commits
       IN \E a \in Answers(valid, "") :
            /\ Issue(Call("createRef", "", body, a.ok, a.sha, a.err, ""))
            /\ IF a.ok
               THEN /\ remote' = [remote EXCEPT !.refs[opts.Branch] = body.sha]
                    /\ Goto("treeTip")
               ELSE /\ UNCHANGED remote
                    /\ Return("err", a.err.msg)
    /\ UNCHANGED <<saved, opts, localState, defaultBranch, locals, gitCalls>>

\* Where createCommit goes once it has the base tree: createBlobs' loop, or
\* past it when there is no file.
AfterTreeTip(files) == IF Len(files) = 0 THEN "tree" ELSE "blobs"

\* getTreeTip: the request's error is dropped and the type assertion on the
\* missing "sha" of a nil response panics.
GetTreeTip ==
    /\ pc = "treeTip"
    /\ \E a \in Answers(latestCommit \in remote.commits, TreeOf(latestCommit)) :
        /\ Issue(Call("getTree", latestCommit, NoBody, a.ok, a.sha, a.err, ""))
        /\ IF a.ok
           THEN /\ treeTip' = a.sha
                /\ Goto(AfterTreeTip(filesToCommit))
           ELSE /\ UNCHANGED treeTip
                /\ Return("panic", "interface conversion: interface {} is nil, not string")
    /\ UNCHANGED <<saved, opts, localState, remote, defaultBranch, alreadyStagedFiles, filesToCommit,
                   branchExists, latestCommit, blobs, newTreeSha, newCommitSha, gitCalls>>

BlobEntry(path, sha) == [path |-> path, mode |-> BlobMode, type |-> BlobType, sha |-> sha]

BlobBody(data) == [content |-> Base64Encode(data), encoding |-> "base64"]

AfterUploadNoFailFast(ok, i, n) == IF i < n THEN "blobs" ELSE "tree"

\* createBlobs after the upload for file i of n: return the error, go on
\* with the next file, or return the list.
AfterUpload(ok, i, n) == IF ~ok THEN "fail" ELSE IF i < n THEN "blobs" ELSE "tree"

\* One round of createBlobs' loop: the next file of the list.
CreateBlobs ==
    /\ pc = "blobs"
    /\ LET i == Len(blobs) + 1
           file == filesToCommit[i]
           n == Len(filesToCommit)
       IN IF ~ExistsLocally(fs, file)
          THEN /\ blobs' = Append(blobs, BlobEntry(file, Null))
               /\ Goto(AfterUpload(TRUE, i, n))
               /\ UNCHANGED <<remote, apiCalls>>
          ELSE LET data == ReadFile(wt, fs, file)
               IN \E a \in Answers(TRUE, BlobSha(data)) :
                    /\ Issue(Call("createBlob", "", BlobBody(data), a.ok, a.sha, a.err, file))
                    /\ IF AfterUpload(a.ok, i, n) = "fail"
                       THEN /\ blobs' = <<>>
                            /\ UNCHANGED remote
                            /\ Return("err", a.err.msg)
                       ELSE /\ blobs' = Append(blobs, BlobEntry(file, a.sha))
                            /\ remote' = [remote EXCEPT !.blobs = @ \cup {a.sha}]
                            /\ Goto(AfterUpload(a.ok, i, n))
    /\ UNCHANGED <<saved, opts, localState, defaultBranch, alreadyStagedFiles, filesToCommit,
                   branchExists, latestCommit, treeTip, newTreeSha, newCommitSha, gitCalls>>

TreeBodyEntriesTwice(treeSha, entries) ==
    [base_tree |-> treeSha, tree |-> entries \o entries]

TreeBody(treeSha, entries) == [base_tree |-> treeSha, tree |-> entries]

\* createNewTree and createCommit's check of its error.
CreateNewTree ==
    /\ pc = "tree"
    /\ LET valid == /\ treeTip \in remote.trees
                    /\ \A i \in 1..Len(blobs) : blobs[i].sha \in remote.blobs \cup {Null}
       IN \E a \in Answers(valid, NewTreeSha) :
            /\ Issue(Call("createTree", "", TreeBody(treeTip, blobs), a.ok, a.sha, a.err, ""))
            /\ IF a.ok
               THEN /\ newTreeSha' = a.sha
                    /\ remote' = [remote EXCEPT !.trees = @ \cup {a.sha}]
                    /\ Goto("commit")
               ELSE /\ UNCHANGED <<newTreeSha, remote>>
                    /\ Return("err", a.err.msg)
    /\ UNCHANGED <<saved, opts, localState, defaultBranch, alreadyStagedFiles, filesToCommit,
                   branchExists, latestCommit, treeTip, blobs, newCommitSha, gitCalls>>

CommitBodyTwoParents(treeSha, parent, message) ==
    [message |-> message, tree |-> treeSha, parents |-> <<parent, parent>>]

CommitBody(treeSha, parent, message) ==
    [message |-> message, tree |-> treeSha, parents |-> <<parent>>]

\* commitTree and createCommit's check of its error.
CommitTree ==
    /\ pc = "commit"
    /\ LET valid == newTreeSha \in remote.trees /\ latestCommit \in remote.commits
       IN \E a \in Answers(valid, NewCommitSha) :
            /\ Issue(Call("createCommit", "",
                          CommitBody(newTreeSha, latestCommit, opts.CommitMessage),
                          a.ok, a.sha, a.err, ""))
            /\ IF a.ok
               THEN /\ newCommitSha' = a.sha
                    /\ remote' = [remote EXCEPT !.commits = @ \cup {a.sha}]
                    /\ Goto("update")
               ELSE /\ UNCHANGED <<newCommitSha, remote>>
                    /\ Return("err", a.err.msg)
    /\ UNCHANGED <<saved, opts, localState, defaultBranch, alreadyStagedFiles, filesToCommit,
                   branchExists, latestCommit, treeTip, blobs, newTreeSha, gitCalls>>

UpdateBodyStale(commitSha) == [sha |-> "c0"]

UpdateBodyForce(commitSha) == [sha |-> commitSha, force |-> TRUE]

\* The body of updateBranch's request: the sha, and no "force".
UpdateBody(commitSha) == [sha |-> commitSha]

\* The request asks the remote to move the ref whatever its tip.
Forced(body) == "force" \in DOMAIN body /\ body.force

\* The remote moves a ref without force only forward: the ref's tip is the
\* parent of the new commit.
FastForward(r, branch, parent) == r.refs[branch] = parent

AfterUpdateAlwaysSync(sync) == "sync"

\* createCommit after the ref update: syncWithRemote when it was asked for,
\* the return otherwise.
AfterUpdate(sync) == IF sync THEN "sync" ELSE "done"

\* updateBranch, createCommit's check of its error, and the end of the
\* transaction: the local sync when asked for, the return otherwise.
UpdateBranch ==
    /\ pc = "update"
    /\ LET body == UpdateBody(newCommitSha)
           valid == /\ remote.refs[opts.Branch] # NoRef
                    /\ newCommitSha \in remote.commits
                    /\ Forced(body) \/ FastForward(remote, opts.Branch, latestCommit)
       IN \E a \in Answers(valid, "") :
            /\ Issue(Call("updateRef", opts.Branch, body, a.ok, a.sha, a.err, ""))
            /\ IF a.ok
               THEN /\ remote' = [remote EXCEPT !.refs[opts.Branch] = newCommitSha]
                    /\ IF AfterUpdate(opts.SyncWithRemote) = "sync"
                       THEN Goto("sync")
                       ELSE Return("nil", "")
               ELSE /\ UNCHANGED remote
                    /\ Return("err", a.err.msg)
    /\ UNCHANGED <<saved, opts, localState, defaultBranch, locals, gitCalls>>

\* ------------------------------------------------------------ syncWithRemote

\* git fetch.
SyncFetch ==
    /\ pc = "sync"
    /\ RunGit(<<"fetch">>)
    /\ \E ok \in BOOLEAN :
        IF ok THEN Goto("syncList") ELSE Return("err", "git fetch failed")
    /\ UNCHANGED <<saved, opts, localState, remote, defaultBranch, locals, apiCalls>>

\* listFilesUsingPatterns({"."}, false, false): the files to back up.
SyncListFiles ==
    /\ pc = "syncList"
    /\ LET command == AddCommand(<<".">>, FALSE, FALSE)
       IN /\ RunGit(command)
          /\ \E ok \in BOOLEAN :
               IF ok
               THEN /\ backupFiles' = ParseAddOutput(GitAddDryRun(wt, command, <<".">>))
                    /\ Goto("syncCopy")
               ELSE /\ UNCHANGED backupFiles
                    /\ Return("err", "git add failed")
    /\ UNCHANGED <<saved, opts, wt, fs, headTree, stash, snapshot, localHash, heads,
                   remote, defaultBranch, locals, apiCalls>>

\* copyFile can open its source.
CanCopy(w, f, name) == Readable(w, f, name)

\* The number of files copyFilesToTempDir copies before it returns: all of
\* them, or those before the first one copyFile fails on.
CopiedCount(w, f, files) ==
    IF \A i \in 1..Len(files) : CanCopy(w, f, files[i])
    THEN Len(files)
    ELSE (CHOOSE i \in 1..Len(files) :
            /\ ~CanCopy(w, f, files[i])
            /\ \A j \in 1..(i - 1) : CanCopy(w, f, files[j])) - 1

SnapshotOfEmptyCopies(f, files, k) ==
    [made |-> TRUE, files |-> [name \in {files[i] : i \in 1..k} |-> <<>>]]

\* The temporary directory after copyFilesToTempDir copied the first k files.
SnapshotOf(f, files, k) ==
    [made |-> TRUE, files |-> [name \in {files[i] : i \in 1..k} |-> f[name]]]

AfterSnapshotIgnoreError(k, n) == "syncStash"

\* syncWithRemote after copyFilesToTempDir copied k of the n files: the
\* stash push, or the return of the error.
AfterSnapshot(k, n) == IF k = n THEN "syncStash" ELSE "fail"

\* copyFilesToTempDir and syncWithRemote's check of its error.
SyncSnapshot ==
    /\ pc = "syncCopy"
    /\ \E mkdirOk \in BOOLEAN :
        IF ~mkdirOk
        THEN /\ UNCHANGED snapshot
             /\ Return("err", "mkdir temp failed")
        ELSE LET k == CopiedCount(wt, fs, backupFiles)
             IN /\ snapshot' = SnapshotOf(fs, backupFiles, k)
                /\ IF AfterSnapshot(k, Len(backupFiles)) = "syncStash"
                   THEN Goto("syncStash")
                   ELSE Return("err", "copy failed")
    /\ UNCHANGED <<saved, opts, wt, fs, headTree, stash, backupFiles, localHash, heads,
                   remote, defaultBranch, locals, apiCalls, gitCalls>>

\* git stash push --include-untracked saves something.
HasLocalChanges(w) == \E p \in Paths : w[p] \notin {"clean", "absent"}

StashEntry(by, f) == [by |-> by, files |-> f]

\* git stash push --include-untracked: an entry with the local changes, the
\* working tree put back to the checked-out commit.
SyncStashPush ==
    /\ pc = "syncStash"
    /\ RunGit(<<"stash", "push", "--include-untracked">>)
    /\ \E ok \in BOOLEAN :
        IF ~ok
        THEN /\ UNCHANGED <<wt, fs, stash>>
             /\ Return("err", "git stash push failed")
        ELSE /\ IF HasLocalChanges(wt)
                THEN /\ stash' = <<StashEntry("sync", fs)>> \o stash
                     /\ fs' = headTree
                     /\ wt' = [p \in Paths |-> IF headTree[p] = NoFile THEN "absent" ELSE "clean"]
                ELSE UNCHANGED <<wt, fs, stash>>
             /\ Goto("syncCheckout")
    /\ UNCHANGED <<saved, opts, headTree, snapshot, backupFiles, localHash, heads,
                   remote, defaultBranch, locals, apiCalls>>

AfterCheckoutSkipPull(ok) == IF ok THEN "syncRevParseLocal" ELSE "fail"

\* syncWithRemote after the checkout: the pull, or the return of the error.
AfterCheckout(ok) == IF ok THEN "syncPull" ELSE "fail"

\* git checkout <branch>.
SyncCheckout ==
    /\ pc = "syncCheckout"
    /\ RunGit(<<"checkout", opts.Branch>>)
    /\ \E ok \in BOOLEAN :
        IF AfterCheckout(ok) = "fail"
        THEN Return("err", "git checkout failed")
        ELSE Goto(AfterCheckout(ok))
    /\ UNCHANGED <<saved, opts, localState, remote, defaultBranch, locals, apiCalls>>

\* The bytes of a blob of the remote.
BlobBytes(sha) ==
    CASE sha = "b-a" -> FileBytes("a.txt")
      [] sha = "b-b" -> FileBytes("b.txt")
      [] sha = "b-c" -> FileBytes("c.txt")
      [] sha = "b-d" -> FileBytes("d.txt")
      [] OTHER -> <<>>

\* A file of the branch's new tip: the last entry the commit has for the
\* path, the file of the base otherwise.
CommittedFile(entries, p, old) ==
    LET at == {i \in 1..Len(entries) : entries[i].path = p}
    IN IF at = {} THEN old
       ELSE LET last == CHOOSE i \in at : \A j \in at : j <= i
            IN IF entries[last].sha = Null THEN NoFile ELSE BlobBytes(entries[last].sha)

\* git pull: the working tree at the branch's tip; the local branch is at
\* the remote's tip or, with commits of its own, somewhere else.
SyncPull ==
    /\ pc = "syncPull"
    /\ RunGit(<<"pull">>)
    /\ \E ok \in BOOLEAN :
        IF ~ok
        THEN /\ UNCHANGED <<wt, fs, headTree, heads>>
             /\ Return("err", "git pull failed")
        ELSE \E diverged \in BOOLEAN :
             LET tree == [p \in Paths |-> CommittedFile(blobs, p, headTree[p])]
             IN /\ headTree' = tree
                /\ fs' = tree
                /\ wt' = [p \in Paths |-> IF tree[p] = NoFile THEN "absent" ELSE "clean"]
                /\ heads' = [local |-> IF diverged THEN "c-local" ELSE remote.refs[opts.Branch],
                             tracking |-> remote.refs[opts.Branch]]
                /\ Goto("syncRevParseLocal")
    /\ UNCHANGED <<saved, opts, stash, snapshot, backupFiles, localHash,
                   remote, defaultBranch, locals, apiCalls>>

\* git rev-parse HEAD.
SyncRevParseLocal ==
    /\ pc = "syncRevParseLocal"
    /\ RunGit(<<"rev-parse", "HEAD">>)
    /\ \E ok \in BOOLEAN :
        IF ok
        THEN /\ localHash' = <<heads.local>>
             /\ Goto("syncRevParseRemote")
        ELSE /\ UNCHANGED localHash
             /\ Return("err", "failed to get local HEAD commit")
    /\ UNCHANGED <<saved, opts, wt, fs, headTree, stash, snapshot, backupFiles, heads,
                   remote, defaultBranch, locals, apiCalls>>

DivergedNever(localH, remoteH) == FALSE

\* syncWithRemote's comparison of the two hashes.
Diverged(localH, remoteH) == localH[1] # remoteH[1]

\* git rev-parse origin/<branch> and the divergence check.
SyncRevParseRemote ==
    /\ pc = "syncRevParseRemote"
    /\ RunGit(<<"rev-parse", "origin/" \o opts.Branch>>)
    /\ \E ok \in BOOLEAN :
        IF ~ok
        THEN Return("err", "failed to get remote HEAD commit")
        ELSE IF Diverged(localHash, <<heads.tracking>>)
        THEN Return("err", "branches have diverged: local HEAD " \o localHash[1]
                           \o ", remote HEAD " \o heads.tracking)
        ELSE Goto("syncRestore")
    /\ UNCHANGED <<saved, opts, localState, remote, defaultBranch, locals, apiCalls>>

\* The working tree after the first k files of the list were copied back
\* from the temporary directory.
RestoredFiles(f, snap, files, k) ==
    [p \in Paths |-> IF \E i \in 1..k : files[i] = p THEN snap.files[p] ELSE f[p]]

AfterRestoreIgnoreError(k, n) == "syncDrop"

\* syncWithRemote after k of the n files were copied back: the stash drop,
\* or the return of the error.
AfterRestore(k, n) == IF k = n THEN "syncDrop" ELSE "fail"

\* The loop that copies the files back: all of them, or those before the
\* one copyFile fails on.
SyncRestore ==
    /\ pc = "syncRestore"
    /\ \E k \in 0..Len(backupFiles) :
        /\ fs' = RestoredFiles(fs, snapshot, backupFiles, k)
        /\ wt' = [p \in Paths |->
                    IF fs'[p] = headTree[p] THEN wt[p]
                    ELSE IF headTree[p] = NoFile THEN "untracked" ELSE "modified"]
        /\ IF AfterRestore(k, Len(backupFiles)) = "syncDrop"
           THEN Goto("syncDrop")
           ELSE Return("err", "failed to restore file " \o backupFiles[k + 1])
    /\ UNCHANGED <<saved, opts, headTree, stash, snapshot, backupFiles, localHash, heads,
                   remote, defaultBranch, locals, apiCalls, gitCalls>>

\* git stash drop: the newest entry goes; the command fails without one.
SyncStashDrop ==
    /\ pc = "syncDrop"
    /\ RunGit(<<"stash", "drop">>)
    /\ \E ok \in (IF stash = <<>> THEN {FALSE} ELSE BOOLEAN) :
        IF ok
        THEN /\ stash' = Tail(stash)
             /\ Return("nil", "")
        ELSE /\ UNCHANGED stash
             /\ Return("err", "git stash drop failed")
    /\ UNCHANGED <<saved, opts, wt, fs, headTree, snapshot, backupFiles, localHash, heads,
                   remote, defaultBranch, locals, apiCalls>>

\* ------------------------------------------------------------ specification

Next ==
    \/ RunE
    \/ SetupContext
    \/ ListStagedFiles
    \/ ListFilesForCommit
    \/ GetLatestCommitTarget
    \/ GetLatestCommitDefault
    \/ CreateNewBranch
    \/ GetTreeTip
    \/ CreateBlobs
    \/ CreateNewTree
    \/ CommitTree
    \/ UpdateBranch
    \/ SyncFetch
    \/ SyncListFiles
    \/ SyncSnapshot
    \/ SyncStashPush
    \/ SyncCheckout
    \/ SyncPull
    \/ SyncRevParseLocal
    \/ SyncRevParseRemote
    \/ SyncRestore
    \/ SyncStashDrop

Spec == Init /\ [][Next]_vars

\* ------------------------------------- listFilesUsingPatterns on its own

\* A call of listFilesUsingPatterns with any arguments: the patterns, force
\* and excludeUntracked are taken from opts as listFilesForCommit passes
\* them, without its guard and without the flag validation of RunE.
InitProbe ==
    /\ pc = "probe"
    /\ ret = "none"
    /\ errMsg = ""
    /\ saved = NoSaved
    /\ opts \in OptionChoices
    /\ wt \in WorkingTrees
    /\ fs = [p \in Paths |-> InitialFile(wt[p], p)]
    /\ headTree = [p \in Paths |-> InitialHeadFile(wt[p], p)]
    /\ stash = <<>>
    /\ snapshot = NoSnapshot
    /\ backupFiles = <<>>
    /\ localHash = <<>>
    /\ heads = [local |-> "", tracking |-> ""]
    /\ remote \in RemoteChoices(opts.Branch)
    /\ defaultBranch = ""
    /\ alreadyStagedFiles = <<>>
    /\ filesToCommit = <<>>
    /\ branchExists = FALSE
    /\ latestCommit = ""
    /\ treeTip = ""
    /\ blobs = <<>>
    /\ newTreeSha = ""
    /\ newCommitSha = ""
    /\ apiCalls = <<>>
    /\ gitCalls = <<>>

\* listFilesUsingPatterns(opts.PatternMatches, opts.Force, !opts.IncludeUntracked).
ListFilesUsingPatterns ==
    /\ pc = "probe"
    /\ LET patterns == opts.PatternMatches.items
           command == AddCommand(patterns, opts.Force, ~opts.IncludeUntracked)
       IN /\ RunGit(command)
          /\ \E ok \in BOOLEAN :
               IF ok
               THEN /\ filesToCommit' = ParseAddOutput(GitAddDryRun(wt, command, patterns))
                    /\ Return("nil", "")
               ELSE /\ UNCHANGED filesToCommit
                    /\ Return("err", "git add failed")
    /\ UNCHANGED <<saved, opts, localState, remote, defaultBranch, alreadyStagedFiles, branchExists,
                   latestCommit, treeTip, blobs, newTreeSha, newCommitSha, apiCalls>>

NextProbe == ListFilesUsingPatterns

SpecProbe == InitProbe /\ [][NextProbe]_vars

\* ------------------------------------ the remote-call functions on their own

\* commitTree, createNewTree, updateBranch and createNewBranch called with
\* any arguments, the empty string included, against a makeRequestRef that
\* answers whatever it likes.
UnitFunctions == {"commitTree", "createNewTree", "updateBranch", "createNewBranch"}

UnitOptionChoices ==
    [CommitAll : {TRUE}, Force : {FALSE}, IncludeUntracked : {FALSE},
     IncludeStagedFiles : {FALSE}, SyncWithRemote : {FALSE}, DryRun : {FALSE},
     Branch : {"", "main"}, CommitMessage : {"", "message"},
     PatternMatches : {NoPatterns}]

UnitBlobLists ==
    {<<>>,
     <<BlobEntry(PathSeq[1], "b-a")>>,
     <<BlobEntry(PathSeq[1], Null), BlobEntry(PathSeq[2], "b-b")>>}

\* What makeRequestRef can answer a request, valid or not.
MockAnswers(sha) == {Ok(sha), Fail(ErrServer), Fail(ErrUnprocessable)}

InitUnit ==
    /\ pc \in UnitFunctions
    /\ ret = "none"
    /\ errMsg = ""
    /\ saved = NoSaved
    /\ opts \in UnitOptionChoices
    /\ wt = [p \in Paths |-> "clean"]
    /\ fs = [p \in Paths |-> InitialFile(wt[p], p)]
    /\ headTree = [p \in Paths |-> InitialHeadFile(wt[p], p)]
    /\ stash = <<>>
    /\ snapshot = NoSnapshot
    /\ backupFiles = <<>>
    /\ localHash = <<>>
    /\ heads = [local |-> "", tracking |-> ""]
    /\ remote \in RemoteChoices(RemoteDefaultBranch)
    /\ defaultBranch = RemoteDefaultBranch
    /\ alreadyStagedFiles = <<>>
    /\ filesToCommit = <<>>
    /\ branchExists = FALSE
    /\ latestCommit \in {"", "c0"}
    /\ treeTip \in {"", "t0"}
    /\ blobs \in UnitBlobLists
    /\ newTreeSha \in {"", NewTreeSha}
    /\ newCommitSha \in {"", NewCommitSha}
    /\ apiCalls = <<>>
    /\ gitCalls = <<>>

\* The function returns to the test that called it.
UnitReturn(function, a) ==
    /\ pc' = function \o "Returned"
    /\ ret' = IF a.ok THEN "nil" ELSE "err"
    /\ errMsg' = a.err.msg

\* commitTree(newTreeSha, latestCommit, opts.CommitMessage).
UnitCommitTree ==
    /\ pc = "commitTree"
    /\ \E a \in MockAnswers(NewCommitSha) :
        /\ Issue(Call("createCommit", "",
                      CommitBody(newTreeSha, latestCommit, opts.CommitMessage),
                      a.ok, a.sha, a.err, ""))
        /\ newCommitSha' = IF a.ok THEN a.sha ELSE ""
        /\ UnitReturn("commitTree", a)
    /\ UNCHANGED <<saved, opts, localState, remote, defaultBranch, alreadyStagedFiles, filesToCommit,
                   branchExists, latestCommit, treeTip, blobs, newTreeSha, gitCalls>>

\* createNewTree(treeTip, blobs).
UnitCreateNewTree ==
    /\ pc = "createNewTree"
    /\ \E a \in MockAnswers(NewTreeSha) :
        /\ Issue(Call("createTree", "", TreeBody(treeTip, blobs), a.ok, a.sha, a.err, ""))
        /\ newTreeSha' = IF a.ok THEN a.sha ELSE ""
        /\ UnitReturn("createNewTree", a)
    /\ UNCHANGED <<saved, opts, localState, remote, defaultBranch, alreadyStagedFiles, filesToCommit,
                   branchExists, latestCommit, treeTip, blobs, newCommitSha, gitCalls>>

\* updateBranch(newCommitSha, opts.Branch).
UnitUpdateBranch ==
    /\ pc = "updateBranch"
    /\ \E a \in MockAnswers("") :
        /\ Issue(Call("updateRef", opts.Branch, UpdateBody(newCommitSha),
                      a.ok, a.sha, a.err, ""))
        /\ UnitReturn("updateBranch", a)
    /\ UNCHANGED <<saved, opts, localState, remote, defaultBranch, locals, gitCalls>>

\* createNewBranch(latestCommit, opts.Branch).
UnitCreateNewBranch ==
    /\ pc = "createNewBranch"
    /\ \E a \in MockAnswers("") :
        /\ Issue(Call("createRef", "", RefBody(latestCommit, opts.Branch),
                      a.ok, a.sha, a.err, ""))
        /\ UnitReturn("createNewBranch", a)
    /\ UNCHANGED <<saved, opts, localState, remote, defaultBranch, locals, gitCalls>>

NextUnit ==
    \/ UnitCommitTree
    \/ UnitCreateNewTree
    \/ UnitUpdateBranch
    \/ UnitCreateNewBranch

SpecUnit == InitUnit /\ [][NextUnit]_vars

\* ------------------------------------ another writer on the target branch

\* The commit another writer pushes.
OtherCommit == "c-other"

\* Between createCommit's branch resolution and its ref update another
\* writer advances the target branch on the remote.
OtherWriter ==
    /\ pc \in {"createBranch", "treeTip", "blobs", "tree", "commit", "update"}
    /\ remote.refs[opts.Branch] \notin {NoRef, OtherCommit}
    /\ remote' = [remote EXCEPT !.refs[opts.Branch] = OtherCommit,
                                !.commits = @ \cup {OtherCommit}]
    /\ UNCHANGED <<saved, opts, pc, ret, errMsg, localState, defaultBranch, locals,
                   apiCalls, gitCalls>>

NextRace ==
    \/ Next
    \/ OtherWriter

SpecRace == Init /\ [][NextRace]_vars

\* ------------------------------------------ two runs that differ in DryRun

\* The state that differs from the given one only in opts.DryRun.
OtherDryRun(state) == [state EXCEPT ![4] = [@ EXCEPT !.DryRun = ~@]]

\* The program is put in the given state.
StartIn(state) ==
    /\ pc' = state[1]
    /\ ret' = state[2]
    /\ errMsg' = state[3]
    /\ opts' = state[4]
    /\ wt' = state[5]
    /\ fs' = state[6]
    /\ headTree' = state[7]
    /\ stash' = state[8]
    /\ snapshot' = state[9]
    /\ backupFiles' = state[10]
    /\ localHash' = state[11]
    /\ heads' = state[12]
    /\ remote' = state[13]
    /\ defaultBranch' = state[14]
    /\ alreadyStagedFiles' = state[15]
    /\ filesToCommit' = state[16]
    /\ branchExists' = state[17]
    /\ latestCommit' = state[18]
    /\ treeTip' = state[19]
    /\ blobs' = state[20]
    /\ newTreeSha' = state[21]
    /\ newCommitSha' = state[22]
    /\ apiCalls' = state[23]
    /\ gitCalls' = state[24]

\* Keep the state a step of the run is about to leave.
Remember ==
    /\ saved.phase = "run"
    /\ pc # "done"
    /\ saved' = [phase |-> "from", state |-> progVars]
    /\ UNCHANGED progVars

\* The run goes on, one step only from a remembered state.
Step ==
    /\ \/ saved.phase = "run"
       \/ saved.phase = "from" /\ saved.state = progVars
    /\ Next

\* After the step, start the other run in the remembered state with DryRun
\* negated; it is to reach the state the step reached, DryRun negated.
Twin ==
    /\ saved.phase = "from"
    /\ saved.state # progVars
    /\ StartIn(OtherDryRun(saved.state))
    /\ saved' = [phase |-> "expect", state |-> OtherDryRun(progVars)]

NextPair ==
    \/ Remember
    \/ Step
    \/ Twin

\* The two runs start from any initial state without earlier stash entries.
InitPair == Init /\ stash = <<>>

SpecPair == InitPair /\ [][NextPair]_vars

\* ------------------------------------------------------------------ claims

\* The calls createCommit makes through makeRequest, in order.
RestCalls == SelectSeq(apiCalls, LAMBDA c : c.op # "repoDefaultBranch")

CallsOf(op) == SelectSeq(apiCalls, LAMBDA c : c.op = op)

Issued(op) == Len(CallsOf(op)) > 0

\* The command has returned r.
Returned(r) == pc = "done" /\ ret = r

\* What may follow call j of the claimed order.
C1_Follows(r, j) ==
    LET a == r[j]
        b == r[j + 1]
    IN CASE a.op = "getBranch" /\ j = 1 ->
              \/ a.ok /\ b.op = "getTree"
              \/ ~a.ok /\ a.err = ErrBranchNotFound
                 /\ b.op = "getBranch" /\ b.target = defaultBranch
         [] a.op = "getBranch" /\ j = 2 -> a.ok /\ b.op = "createRef"
         [] a.op = "createRef" -> a.ok /\ b.op = "getTree"
         [] a.op = "getTree" -> a.ok /\ b.op \in {"createBlob", "createTree"}
         [] a.op = "createBlob" -> a.ok /\ b.op \in {"createBlob", "createTree"}
         [] a.op = "createTree" -> a.ok /\ b.op = "createCommit"
         [] a.op = "createCommit" -> a.ok /\ b.op = "updateRef"
         [] OTHER -> FALSE

\* C1: the remote calls of createCommit are issued in the order get target
\* branch, (get default branch, create ref, only when the target branch was
\* not found), get base tree, blob uploads, create tree, create commit,
\* update ref; each only after the step before it succeeded, and none after
\* the first failing step.
C1_CallOrder ==
    LET r == RestCalls
    IN /\ Len(r) > 0 => r[1].op = "getBranch" /\ r[1].target = opts.Branch
       /\ \A j \in 1..(Len(r) - 1) : C1_Follows(r, j)

\* C2: for a target branch that exists, a successful createCommit issues no
\* create-ref call; the create-tree call's base_tree is the tree sha fetched
\* for the branch's tip; the create-commit call's tree is the sha create-tree
\* returned; and exactly one update-ref call, to the target branch, carries
\* the sha create-commit returned, which the branch then points at.
C2_ExistingBranchDataFlow ==
    (Returned("nil") /\ branchExists) =>
        LET branch == CallsOf("getBranch")
            tree == CallsOf("getTree")
            newTree == CallsOf("createTree")
            commit == CallsOf("createCommit")
            update == CallsOf("updateRef")
        IN /\ ~Issued("createRef")
           /\ Len(tree) = 1 /\ tree[1].target = branch[1].sha
           /\ Len(newTree) = 1 /\ newTree[1].body.base_tree = tree[1].sha
           /\ Len(commit) = 1 /\ commit[1].body.tree = newTree[1].sha
           /\ Len(update) = 1 /\ update[1].target = opts.Branch
           /\ update[1].body.sha = commit[1].sha
           /\ remote.refs[opts.Branch] = commit[1].sha

C2_Witness ==
    /\ Returned("nil")
    /\ branchExists
    /\ Issued("updateRef")
    /\ Len(blobs) > 0

\* C3: for a target branch that does not exist, createCommit issues exactly
\* one branch-creation call, with ref refs/heads/<branch> and the default
\* branch's tip as sha, before the commit-creation call and before any
\* ref-update call.
C3_BranchCreation ==
    LET r == RestCalls
        resolvedMissing ==
            /\ Len(r) >= 2
            /\ ~r[1].ok /\ r[1].err = ErrBranchNotFound
            /\ r[2].op = "getBranch"
    IN resolvedMissing =>
        /\ Len(CallsOf("createRef")) <= 1
        /\ \A i \in 1..Len(r) :
            /\ r[i].op = "createRef" =>
                /\ r[i].body.ref = "refs/heads/" \o opts.Branch
                /\ r[i].body.sha = remote.refs[defaultBranch]
            /\ r[i].op \in {"createCommit", "updateRef"} =>
                \E j \in 1..(i - 1) : r[j].op = "createRef"
        /\ pc \notin {"resolveDefault", "createBranch"} => Issued("createRef")

\* C4: getLatestCommit returns (true, target tip, nil) after a single branch
\* query when the target branch is found; when the target query fails with
\* 404 "Branch not found" it queries the default branch and returns
\* (false, default branch tip, nil).
C4_GetLatestCommit ==
    LET q == CallsOf("getBranch")
    IN /\ (Len(q) >= 1 /\ q[1].ok) =>
            /\ Len(q) = 1
            /\ branchExists
            /\ latestCommit = q[1].sha
            /\ Len(RestCalls) = 1 => pc = "treeTip"
       /\ (Len(q) >= 1 /\ ~q[1].ok /\ q[1].err = ErrBranchNotFound
           /\ pc # "resolveDefault") =>
            /\ Len(q) = 2
            /\ q[2].target = defaultBranch
            /\ ~branchExists
            /\ latestCommit = remote.refs[defaultBranch]
            /\ Len(RestCalls) = 2 => pc = "createBranch"

\* C5: a failure of the target-branch query other than 404 "Branch not
\* found" is returned as an error: the default branch is not queried and
\* createCommit aborts before any create-ref, blob, tree or commit call.
C5_FatalBranchError ==
    LET r == RestCalls
    IN (Len(r) >= 1 /\ ~r[1].ok /\ r[1].err # ErrBranchNotFound) =>
        /\ Len(r) = 1
        /\ Returned("err")

\* C6: whenever createNewBranch, getTreeTip, createBlobs, createNewTree or
\* commitTree is invoked, the resolved tip is a sha a successful branch
\* query returned.
C6_TipResolved ==
    \A i \in 1..Len(apiCalls) :
        apiCalls[i].op \in {"createRef", "getTree", "createBlob", "createTree", "createCommit"} =>
            \E j \in 1..(i - 1) :
                /\ apiCalls[j].op = "getBranch"
                /\ apiCalls[j].ok
                /\ apiCalls[j].sha = latestCommit

\* C7: createCommit returns nil only if every step succeeded, from context
\* setup through the ref-update call; a failure of any step is returned as a
\* non-nil error.
C7_NilOnlyOnSuccess ==
    /\ Returned("nil") =>
        /\ defaultBranch # ""
        /\ \E i \in 1..Len(apiCalls) : apiCalls[i].op = "updateRef" /\ apiCalls[i].ok
    /\ (pc = "done" /\ \E i \in 1..Len(apiCalls) :
            ~apiCalls[i].ok /\ apiCalls[i].err # ErrBranchNotFound) => ret = "err"

\* C8: if a blob upload fails, createBlobs returns an error and no blob
\* list, no later file is uploaded, and no create-tree, create-commit or
\* update-ref call is issued.
C8_UploadFailFast ==
    \A i \in 1..Len(apiCalls) :
        (apiCalls[i].op = "createBlob" /\ ~apiCalls[i].ok) =>
            /\ i = Len(apiCalls)
            /\ Returned("err")
            /\ blobs = <<>>

C8_Witness ==
    /\ \E i \in 1..Len(apiCalls) : apiCalls[i].op = "createBlob" /\ ~apiCalls[i].ok
    /\ \E i \in 1..Len(apiCalls) : apiCalls[i].op = "createBlob" /\ apiCalls[i].ok
    /\ Len(CallsOf("createBlob")) < Len(filesToCommit)

BuildFailed ==
    \E i \in 1..Len(apiCalls) :
        apiCalls[i].op \in {"createBlob", "createTree"} /\ ~apiCalls[i].ok

\* C9 as stated: when a blob upload or the tree creation fails, neither a
\* create-ref nor an update-ref call has been issued, whether the target
\* branch existed or not.
C9_NoRefCallBeforeBuildFailure ==
    BuildFailed => ~Issued("createRef") /\ ~Issued("updateRef")

\* C9 amended: when a blob upload or the tree creation fails, no update-ref
\* call has been issued, and a create-ref call has been issued exactly when
\* the target branch was not found (none for an existing target branch).
C9_NoRefUpdateBeforeBuildFailure ==
    BuildFailed =>
        /\ ~Issued("updateRef")
        /\ Issued("createRef") <=> ~branchExists
        /\ Returned("err")

C9_Witness ==
    /\ BuildFailed
    /\ Issued("createRef")
    /\ Issued("createTree")

\* The index in apiCalls of the upload made for entry i of the file list.
UploadFor(i) ==
    LET before == Cardinality({k \in 1..i : ExistsLocally(fs, filesToCommit[k])})
    IN CallsOf("createBlob")[before]

\* C10: for every path given to createBlobs, a path that does not exist
\* locally yields the entry {path, "100644", "blob", null} and no upload; a
\* path that exists yields exactly one upload whose base64 content decodes
\* to the file's bytes, and the entry's sha is the sha that upload returned.
C10_BlobRoundTrip ==
    (pc \in {"blobs", "tree", "commit", "update"}) =>
        /\ Len(CallsOf("createBlob")) =
              Cardinality({k \in 1..Len(blobs) : ExistsLocally(fs, filesToCommit[k])})
        /\ \A i \in 1..Len(blobs) :
            /\ blobs[i].path = filesToCommit[i]
            /\ blobs[i].mode = "100644" /\ blobs[i].type = "blob"
            /\ IF ExistsLocally(fs, filesToCommit[i])
               THEN LET up == UploadFor(i)
                    IN /\ up.file = filesToCommit[i]
                       /\ up.body.encoding = "base64"
                       /\ Base64Decode(up.body.content) = fs[filesToCommit[i]]
                       /\ blobs[i].sha = up.sha
               ELSE blobs[i].sha = Null

\* C11: every create-commit request carries exactly one parent, the tip
\* getLatestCommit resolved: the target branch's tip when the branch was
\* found, the default branch's tip otherwise.
C11_SingleParent ==
    LET q == CallsOf("getBranch")
        commit == CallsOf("createCommit")
    IN \A i \in 1..Len(commit) :
        /\ Len(commit[i].body.parents) = 1
        /\ commit[i].body.parents[1] = latestCommit
        /\ IF branchExists
           THEN /\ q[1].ok /\ q[1].target = opts.Branch
                /\ commit[i].body.parents[1] = q[1].sha
           ELSE /\ Len(q) = 2 /\ q[2].ok /\ q[2].target = defaultBranch
                /\ commit[i].body.parents[1] = q[2].sha

C11_Witness ==
    /\ Issued("createCommit")
    /\ Issued("createRef")
    /\ ~branchExists

\* C12: no remote call is retried: create-ref, get-tree, create-tree,
\* create-commit and update-ref are issued at most once each, the branch
\* query at most once per branch name, and the blob upload at most once per
\* entry of the file list.
C12_NoRetry ==
    LET q == CallsOf("getBranch")
        up == CallsOf("createBlob")
    IN /\ \A op \in {"createRef", "getTree", "createTree", "createCommit", "updateRef"} :
            Len(CallsOf(op)) <= 1
       /\ \A i \in 1..Len(q) : \A j \in 1..Len(q) : q[i].target = q[j].target => i = j
       /\ Len(up) <= Len(filesToCommit)
       /\ \A i \in 1..Len(up) : \A j \in 1..Len(up) :
            i < j => \E a \in 1..Len(filesToCommit) : \E b \in 1..Len(filesToCommit) :
                a < b /\ filesToCommit[a] = up[i].file /\ filesToCommit[b] = up[j].file

\* RunE has called createCommit.
CreateCommitCalled == pc # "cli" /\ errMsg # MutuallyExclusiveMessage

\* C13: with CommitAll unset and no explicit pattern the run fails with the
\* no-files error, and by then no remote call and no git command has been
\* issued.
C13_NoFilesNoCalls ==
    (~opts.CommitAll /\ Len(opts.PatternMatches.items) = 0 /\ pc = "done") =>
        /\ ret = "err" /\ errMsg = NoFilesMessage
        /\ apiCalls = <<>>
        /\ gitCalls = <<>>

\* listFilesForCommit has been called and has returned.
SelectionReturned ==
    /\ Len(gitCalls) >= 1
    /\ pc \notin {"staged", "select"}
    /\ errMsg # StagedFilesMessage

\* The patterns of an add command: what follows the flags.
PatternsOf(command) ==
    SelectSeq(command, LAMBDA x : x \notin {"add", "--dry-run", "-u", "-f"})

\* C14: listFilesForCommit fails with the no-files error only when CommitAll
\* is unset and the pattern list is empty; with CommitAll unset and patterns
\* given it resolves the files against exactly those patterns, with CommitAll
\* set against the single pattern ".".
C14_ListFilesForCommit ==
    SelectionReturned =>
        /\ errMsg = NoFilesMessage =>
            ~opts.CommitAll /\ Len(opts.PatternMatches.items) = 0
        /\ (~opts.CommitAll /\ Len(opts.PatternMatches.items) > 0) =>
            /\ Len(gitCalls) >= 2
            /\ PatternsOf(gitCalls[2]) = opts.PatternMatches.items
        /\ opts.CommitAll =>
            /\ Len(gitCalls) >= 2
            /\ PatternsOf(gitCalls[2]) = <<".">>

\* C15: with files already staged and IncludeStagedFiles unset, createCommit
\* fails with the staged-files error before any branch query, create-ref,
\* blob upload, tree, commit or update-ref call.
C15_StagedFilesAbort ==
    (GitDiffCached(wt) # <<>> /\ ~opts.IncludeStagedFiles /\ CreateCommitCalled) =>
        /\ RestCalls = <<>>
        /\ pc = "done" => ret = "err" /\ errMsg = StagedFilesMessage

\* C16: the entry list of every create-tree request holds each path at most
\* once.
C16_UniqueTreePaths ==
    LET t == CallsOf("createTree")
    IN \A k \in 1..Len(t) :
        \A i \in 1..Len(t[k].body.tree) : \A j \in 1..Len(t[k].body.tree) :
            t[k].body.tree[i].path = t[k].body.tree[j].path => i = j

\* The command has the flag.
HasFlag(command, flag) == \E k \in 1..Len(command) : command[k] = flag

\* C17: the selection probe carries -u exactly when untracked files are
\* excluded, -f exactly when force is set and untracked files are not
\* excluded, and never both.
C17_ProbeFlags ==
    (Len(gitCalls) = 1 /\ gitCalls[1][1] = "add") =>
        LET command == gitCalls[1]
            force == opts.Force
            excludeUntracked == ~opts.IncludeUntracked
        IN /\ HasFlag(command, "-u") <=> excludeUntracked
           /\ HasFlag(command, "-f") <=> (force /\ ~excludeUntracked)
           /\ ~(HasFlag(command, "-u") /\ HasFlag(command, "-f"))
           /\ HasFlag(command, "--dry-run")

C17_Witness ==
    /\ Len(gitCalls) = 1
    /\ opts.Force /\ ~opts.IncludeUntracked
    /\ HasFlag(gitCalls[1], "-u")
    /\ pc = "done"

\* syncWithRemote has started.
SyncStarted == \E i \in 1..Len(gitCalls) : gitCalls[i] = <<"fetch">>

\* A git command of the file selection: the staged-file listing or an add
\* with --dry-run.
IsProbe(command) ==
    \/ command = <<"diff", "--name-only", "--cached">>
    \/ command[1] = "add" /\ HasFlag(command, "--dry-run")

\* C18: file selection leaves the working tree and the index as they are:
\* until syncWithRemote starts the only git commands issued are the
\* staged-file listing and add commands that carry --dry-run, and no step
\* changes the working tree, the checked-out commit or the stash.
C18_SelectionFrame ==
    /\ [](~SyncStarted => \A i \in 1..Len(gitCalls) : IsProbe(gitCalls[i]))
    /\ [][~SyncStarted' => UNCHANGED <<wt, fs, headTree, stash>>]_vars

C18_Witness ==
    /\ pc = "resolve"
    /\ Len(gitCalls) = 2
    /\ Len(filesToCommit) > 0

\* C19: syncWithRemote runs only when SyncWithRemote was requested and only
\* after the update-ref call succeeded: a git command other than the
\* selection probes is issued only then, after the probes and after the last
\* remote call.
C19_SyncOnlyAfterUpdate ==
    (\E i \in 1..Len(gitCalls) : ~IsProbe(gitCalls[i])) =>
        /\ opts.SyncWithRemote
        /\ Len(CallsOf("updateRef")) = 1
        /\ CallsOf("updateRef")[1].ok
        /\ apiCalls[Len(apiCalls)].op = "updateRef"
        /\ \A i \in 1..Len(gitCalls) : ~IsProbe(gitCalls[i]) => i > 2

C19_Witness ==
    /\ Returned("nil")
    /\ SyncStarted
    /\ \E i \in 1..Len(gitCalls) : gitCalls[i] = <<"stash", "drop">>

\* The working-tree files with local changes that can be copied.
LocallyChanged(w) == {p \in Paths : w[p] \in {"modified", "untracked", "stagedModified"}}

\* C20: before the stash push, the checkout or the pull is issued, the files
\* enumerated with pattern "." (untracked included, not forced), which hold
\* every modified and every untracked file, have all been copied into the
\* snapshot directory; none of the three commands runs without a completed
\* snapshot.
C20_SnapshotBeforeStash ==
    /\ pc = "syncStash" =>
        /\ snapshot.made
        /\ \A p \in LocallyChanged(wt) :
            p \in DOMAIN snapshot.files /\ snapshot.files[p] = fs[p]
    /\ (\E i \in 1..Len(gitCalls) : gitCalls[i][1] \in {"stash", "checkout", "pull"}) =>
        /\ snapshot.made
        /\ \A k \in 1..Len(backupFiles) : backupFiles[k] \in DOMAIN snapshot.files
        /\ \E i \in 1..Len(gitCalls) :
            /\ gitCalls[i] = <<"add", "--dry-run", ".">>
            /\ \A j \in 1..Len(gitCalls) :
                gitCalls[j][1] \in {"stash", "checkout", "pull"} => i < j

C20_Witness ==
    /\ \E i \in 1..Len(gitCalls) : gitCalls[i][1] = "pull"
    /\ Len(backupFiles) = 2
    /\ stash # <<>> /\ stash[1].by = "sync"

\* The git commands of syncWithRemote issued so far.
SyncCalls ==
    IF SyncStarted
    THEN LET first == CHOOSE i \in 1..Len(gitCalls) : gitCalls[i] = <<"fetch">>
         IN SubSeq(gitCalls, first, Len(gitCalls))
    ELSE <<>>

\* The git commands of a complete syncWithRemote, in order.
SyncOrder ==
    << <<"fetch">>,
       <<"add", "--dry-run", ".">>,
       <<"stash", "push", "--include-untracked">>,
       <<"checkout", opts.Branch>>,
       <<"pull">>,
       <<"rev-parse", "HEAD">>,
       <<"rev-parse", "origin/" \o opts.Branch>>,
       <<"stash", "drop">> >>

\* The comparison of the two references has been made and they differ.
FoundDiverged ==
    /\ Len(SyncCalls) >= 7
    /\ errMsg # "failed to get remote HEAD commit"
    /\ pc # "syncRevParseRemote"
    /\ heads.local # heads.tracking

\* C21: when the local HEAD differs from the remote-tracking reference after
\* the pull, syncWithRemote fails with the branches-diverged error carrying
\* both references; no stash drop or pop is issued, no file is copied back,
\* the stash entry stays, and the snapshot still holds every pre-stash copy.
C21_DivergedKeepsStash ==
    FoundDiverged =>
        /\ Returned("err")
        /\ errMsg = "branches have diverged: local HEAD " \o heads.local
                    \o ", remote HEAD " \o heads.tracking
        /\ \A i \in 1..Len(gitCalls) :
            gitCalls[i] \notin {<<"stash", "drop">>, <<"stash", "pop">>}
        /\ fs = headTree
        /\ snapshot.made
        /\ \A k \in 1..Len(backupFiles) :
            /\ backupFiles[k] \in DOMAIN snapshot.files
            /\ stash # <<>> /\ stash[1].by = "sync"
            /\ snapshot.files[backupFiles[k]] = stash[1].files[backupFiles[k]]

C21_Witness ==
    /\ FoundDiverged
    /\ Len(backupFiles) > 0

SyncFailurePoint(msg) ==
    CASE msg = "git fetch failed" -> 1
      [] msg \in {"git add failed", "mkdir temp failed", "copy failed"} -> 2
      [] msg = "git stash push failed" -> 3
      [] msg = "git checkout failed" -> 4
      [] msg = "git pull failed" -> 5
      [] msg = "failed to get local HEAD commit" -> 6
      [] msg = "git stash drop failed" -> 8
      [] OTHER -> 7

\* C23: syncWithRemote runs fetch, enumerate, snapshot, stash push,
\* checkout, pull, rev-parse HEAD, rev-parse origin/<branch>, restore, stash
\* drop in this order; a failing step returns its error at once and no later
\* step runs, and a failure after the stash push leaves the stash entry.
C23_SyncOrder ==
    LET sc == SyncCalls
    IN /\ Len(sc) <= Len(SyncOrder)
       /\ \A i \in 1..Len(sc) : sc[i] = SyncOrder[i]
       /\ snapshot.made => Len(sc) >= 2
       /\ Len(sc) >= 3 => snapshot.made
       /\ Len(sc) >= 8 =>
            \A k \in 1..Len(backupFiles) : fs[backupFiles[k]] = snapshot.files[backupFiles[k]]
       /\ (SyncStarted /\ Returned("err")) =>
            /\ Len(sc) = SyncFailurePoint(errMsg)
            /\ (Len(sc) >= 4 /\ Len(backupFiles) > 0) =>
                stash # <<>> /\ stash[1].by = "sync"

C23_Witness ==
    /\ SyncStarted
    /\ Returned("err")
    /\ errMsg = "git pull failed"
    /\ Len(backupFiles) > 0

\* C24: with --all and --force both set, validation fails with the
\* only-one-of error and createCommit is never called; otherwise validation
\* calls createCommit with the options unchanged.
C24_MutuallyExclusive ==
    /\ [](pc # "cli" =>
            IF opts.CommitAll /\ opts.Force
            THEN /\ Returned("err")
                 /\ errMsg = MutuallyExclusiveMessage
                 /\ apiCalls = <<>> /\ gitCalls = <<>>
                 /\ defaultBranch = ""
            ELSE errMsg # MutuallyExclusiveMessage)
    /\ [][(pc = "cli" /\ ~(opts.CommitAll /\ opts.Force)) => pc' = "setup"]_vars
    /\ [][opts' = opts]_vars

C24_Witness ==
    /\ Returned("err")
    /\ errMsg = MutuallyExclusiveMessage
    /\ opts.CommitAll /\ opts.Force

\* C26: with --dry-run set the run issues no create-ref, no create-commit
\* and no update-ref call.
C26_DryRunCreatesNothing ==
    opts.DryRun =>
        /\ ~Issued("createRef")
        /\ ~Issued("createCommit")
        /\ ~Issued("updateRef")

\* C27: commitTree returns an error and an empty sha when the tree sha or
\* the parent sha is empty, whatever the remote answers; an empty commit
\* message is accepted and sent as the empty string.
C27_CommitTreeEmptyArguments ==
    pc = "commitTreeReturned" =>
        /\ (newTreeSha = "" \/ latestCommit = "") =>
            ret = "err" /\ newCommitSha = ""
        /\ (newTreeSha # "" /\ latestCommit # "" /\ opts.CommitMessage = "") =>
            /\ Len(apiCalls) = 1
            /\ apiCalls[1].body.message = ""
            /\ apiCalls[1].ok => ret = "nil" /\ newCommitSha = apiCalls[1].sha

\* C28: updateBranch and createNewBranch return an error when the commit sha
\* or the branch name is empty, whatever the remote answers.
C28_RefCallsEmptyArguments ==
    /\ (pc = "updateBranchReturned" /\ (newCommitSha = "" \/ opts.Branch = "")) =>
        ret = "err"
    /\ (pc = "createNewBranchReturned" /\ (latestCommit = "" \/ opts.Branch = "")) =>
        ret = "err"

\* C29: createNewTree returns an error and an empty sha when the base tree
\* sha is empty, whatever the remote answers; otherwise it sends base_tree
\* and the entry list unchanged in one call and returns the sha of the
\* response or the call's error.
C29_CreateNewTree ==
    pc = "createNewTreeReturned" =>
        /\ treeTip = "" => ret = "err" /\ newTreeSha = ""
        /\ treeTip # "" =>
            /\ Len(apiCalls) = 1
            /\ apiCalls[1].op = "createTree"
            /\ apiCalls[1].body = [base_tree |-> treeTip, tree |-> blobs]
            /\ apiCalls[1].ok => ret = "nil" /\ newTreeSha = apiCalls[1].sha
            /\ ~apiCalls[1].ok =>
                ret = "err" /\ newTreeSha = "" /\ errMsg = apiCalls[1].err.msg

StagedQueryFailed ==
    /\ Len(gitCalls) >= 1
    /\ ~SyncStarted
    /\ alreadyStagedFiles # GitDiffCached(wt)

\* C31: when the staged-file query fails createCommit returns an error, and
\* no branch query, blob upload, tree, commit or ref call is issued.
C31_StagedQueryFailureAborts ==
    StagedQueryFailed =>
        /\ RestCalls = <<>>
        /\ pc = "done" => ret = "err"

\* The request for the base tree failed.
TreeFetchFailed == \E i \in 1..Len(apiCalls) : apiCalls[i].op = "getTree" /\ ~apiCalls[i].ok

\* C32: when the fetch of the base tree fails createCommit returns an error
\* to its caller, and issues no blob upload, create-tree, create-commit or
\* update-ref call.
C32_TreeFetchFailureReturnsError ==
    TreeFetchFailed =>
        /\ Returned("err")
        /\ ~Issued("createBlob")
        /\ ~Issued("createTree")
        /\ ~Issued("createCommit")
        /\ ~Issued("updateRef")

\* The output lines of the selection probe of this run.
ProbeLines == GitAddDryRun(wt, gitCalls[2], PatternsOf(gitCalls[2]))

\* The paths of a list of tree entries, in order.
EntryPaths(entries) == [i \in 1..Len(entries) |-> entries[i].path]

\* C33: a transaction submits one create-tree call (never two, and one
\* whenever a commit is created); its entry list has one entry per element
\* of the file list, in the same order: the files of the probe's lines in
\* the order of the lines, followed by the already-staged files in the order
\* they were listed.  createBlobs keeps length and order.
C33_TreeEntriesInOrder ==
    /\ Len(CallsOf("createTree")) <= 1
    /\ Issued("createCommit") => Len(CallsOf("createTree")) = 1
    /\ pc = "tree" => EntryPaths(blobs) = filesToCommit
    /\ (Issued("createTree") /\ ~SyncStarted) =>
        LET entries == CallsOf("createTree")[1].body.tree
        IN /\ Len(entries) = Len(ProbeLines) + Len(alreadyStagedFiles)
           /\ EntryPaths(entries) = ParseAddOutput(ProbeLines) \o alreadyStagedFiles
           /\ \A i \in 1..Len(ProbeLines) :
                ProbeLines[i].verb = "add" => entries[i].path = ProbeLines[i].path

C33_Witness ==
    /\ pc = "commit"
    /\ Len(ProbeLines) >= 1
    /\ Len(alreadyStagedFiles) >= 1
    /\ LET entries == CallsOf("createTree")[1].body.tree
       IN /\ Len(entries) = 2
          /\ entries[1].path # entries[2].path
          /\ entries[2].path = alreadyStagedFiles[1]

\* C34: listFilesUsingPatterns returns one file name per output line of the
\* dry-run add, in the order of the lines, each the file the line names (the
\* line without its leading "add " and its quotes); when the command fails
\* it returns an error and no list; no output gives the empty list and no
\* error.
C34_ListFilesUsingPatterns ==
    (pc = "done" /\ Len(gitCalls) = 1 /\ gitCalls[1][1] = "add") =>
        LET lines == GitAddDryRun(wt, gitCalls[1], PatternsOf(gitCalls[1]))
        IN IF ret = "nil"
           THEN /\ Len(filesToCommit) = Len(lines)
                /\ \A i \in 1..Len(lines) : filesToCommit[i] = lines[i].path
           ELSE ret = "err" /\ filesToCommit = <<>>

\* The calls createCommit can issue: none of them deletes or resets a ref.
KnownCalls ==
    {"repoDefaultBranch", "getBranch", "createRef", "getTree", "createBlob",
     "createTree", "createCommit", "updateRef"}

\* The target branch was created by this run and a later call failed.
FailedAfterBranchCreation ==
    \E i \in 1..Len(apiCalls) :
        /\ apiCalls[i].op = "createRef" /\ apiCalls[i].ok
        /\ \E j \in (i + 1)..Len(apiCalls) : ~apiCalls[j].ok

\* C35: createCommit issues no undoing call; when it created the target
\* branch and a later step fails, the run ends in failure and the new branch
\* still exists and points at the default branch's tip.
C35_NoCompensation ==
    /\ \A i \in 1..Len(apiCalls) : apiCalls[i].op \in KnownCalls
    /\ FailedAfterBranchCreation =>
        /\ pc = "done"
        /\ ret \in {"err", "panic"}
        /\ remote.refs[opts.Branch] # NoRef
        /\ remote.refs[opts.Branch] = remote.refs[RemoteDefaultBranch]

C35_Witness ==
    /\ FailedAfterBranchCreation
    /\ Issued("createCommit")
    /\ Returned("err")
    /\ remote.refs[opts.Branch] = "c0"

\* The stash entries that were there before the run, in order.
EarlierEntries(entries) == SelectSeq(entries, LAMBDA e : e.by = "earlier")

\* C36: the stash drop of syncWithRemote drops the entry its own stash push
\* created; no entry that was there before the invocation is dropped, so the
\* earlier entries are the same after every step of a run.
C36_DropsOwnStashEntry ==
    /\ [][(pc = "syncDrop" /\ stash' # stash) => stash[1].by = "sync"]_vars
    /\ [][EarlierEntries(stash') = EarlierEntries(stash)]_vars

\* C37: a commit another writer put on the target branch between the branch
\* resolution and the ref update is not silently discarded: the update-ref
\* request carries the sha only, and the step of updateBranch either ends
\* the run with the error of the rejected update, or moves a ref whose tip
\* just before was the parent of the new commit.
C37_NoLostUpdate ==
    /\ [](\A i \in 1..Len(apiCalls) :
            apiCalls[i].op = "updateRef" => DOMAIN apiCalls[i].body = {"sha"})
    /\ [][(pc = "update" /\ pc' # "update") =>
            LET call == apiCalls'[Len(apiCalls')]
                parent == CallsOf("createCommit")[1].body.parents[1]
            IN /\ call.op = "updateRef"
               /\ IF call.ok
                  THEN /\ remote.refs[opts.Branch] = parent
                       /\ remote'.refs[opts.Branch] = call.body.sha
                  ELSE /\ ret' = "err"
                       /\ remote'.refs[opts.Branch] = remote.refs[opts.Branch]]_vars

C37_Witness ==
    /\ Returned("err")
    /\ remote.refs[opts.Branch] = OtherCommit
    /\ Issued("updateRef")
    /\ errMsg = ErrUnprocessable.msg
    /\ CallsOf("createCommit")[1].ok

\* listFilesForCommit succeeded and the file list, staged files included, is
\* empty.
EmptyFileList ==
    /\ Len(gitCalls) >= 2
    /\ pc \notin {"cli", "setup", "staged", "select"}
    /\ errMsg # "git add failed"
    /\ filesToCommit = <<>>

\* C38: with an empty resolved file list createCommit creates no commit: no
\* create-tree, create-commit or update-ref call is issued and the target
\* branch is not moved to a new commit.
C38_EmptyListNoCommit ==
    EmptyFileList =>
        /\ ~Issued("createTree")
        /\ ~Issued("createCommit")
        /\ ~Issued("updateRef")
        /\ remote.refs[opts.Branch] # NewCommitSha

\* C39: createBlobs uploads no blob for a path whose content it cannot read
\* (it returns an error instead): every upload is made for a readable file
\* and carries the file's bytes, and a deletion entry is emitted only for a
\* path that does not exist.
C39_UnreadableFileFails ==
    ~SyncStarted =>
        /\ \A i \in 1..Len(apiCalls) :
            apiCalls[i].op = "createBlob" =>
                /\ Readable(wt, fs, apiCalls[i].file)
                /\ Base64Decode(apiCalls[i].body.content) = fs[apiCalls[i].file]
        /\ \A k \in 1..Len(blobs) :
            blobs[k].sha = Null => ~ExistsLocally(fs, blobs[k].path)

====
